---- MODULE Spec2Model ----
(***************************************************************************)
(* Model of src/src/engine/mod.rs: the PhysicsBinder (the bidirectional    *)
(* node <-> rigid body table) and its persistence through Visit, the       *)
(* handle wrappers of the physics engine's ids, and Engine::update.        *)
(***************************************************************************)
EXTENDS Integers, FiniteSets, Sequences, TLC

(* ------------------------------ bounds --------------------------------- *)

\* Number of distinct node handles the callers use as keys.
MaxNodes == 2
\* Number of distinct rigid body handles.
MaxBodies == 2
\* Number of distinct random ids given to handle wrappers.
NumUuids == 2
\* Number of scenes, 3D and 2D together, the engine holds at most.
MaxScenes == 3
\* Number of distinct resources the resource manager is asked for.
NumResources == 2

(* ------------------------------ values --------------------------------- *)

\* Handle::NONE, the sentinel unbind_by_body returns when nothing is found.
NONE == 0

\* Handle<N>: the handles of live nodes, which the callers bind and unbind.
Handles == 1..MaxNodes

\* RigidBodyHandle values.
Bodies == 1..MaxBodies

\* Option<T>: None and Some(v).
None == <<>>
Some(v) == <<v>>

\* HashMap<K, V> is a function whose DOMAIN is the set of keys present.
EmptyMap == <<>>

\* HashMap::insert(k, v): adds the entry or overwrites the value under k.
Insert(m, k, v) == [x \in (DOMAIN m) \cup {k} |-> IF x = k THEN v ELSE m[x]]

\* HashMap::remove(k): drops the entry under k, if any.
Remove(m, k) == [x \in (DOMAIN m) \ {k} |-> m[x]]

\* HashMap::get(k) as an Option.
Get(m, k) == IF k \in DOMAIN m THEN Some(m[k]) ELSE None

(* ------------------------------ state ---------------------------------- *)

VARIABLES
    forward_map,   \* PhysicsBinder::forward_map : Handle<N> -> RigidBodyHandle
    backward_map,  \* PhysicsBinder::backward_map : RigidBodyHandle -> Handle<N>
    enabled,       \* PhysicsBinder::enabled
    last,          \* the last call made on the binder: its name, arguments, result
    saved,         \* the data a write-mode Visitor holds after PhysicsBinder::visit
    orig,          \* the binder as it was when `saved` was written
    id,            \* a handle wrapper's field 0, the Uuid, as its 16 bytes
    type_name,     \* which of the three wrapper types the handle is
    endian,        \* the byte order of the target the program is built for
    origin,        \* where the handle's id came from
    visitor,       \* the Visitor the handle is visited with
    hlast,         \* the last call made on the handle or its Visitor
    kept,          \* a copy of a handle read from legacy fields, with the fields
    scenes,        \* Engine::scenes, in the order update iterates them
    scenes2d,      \* Engine::scenes2d, likewise
    window_size,   \* the inner size of the engine's window
    ui_time,       \* Engine::ui_time
    panicked,      \* the thread running the engine has panicked
    trace,         \* the calls the last call on the engine made, in order
    elast,         \* the last call made on the engine
    drawing_context, \* the interface's draw list: what it was last made from
    flushed,       \* the renderer has been flushed
    upload_sender, \* the resource manager's upload_sender
    resources,     \* the resource manager's resources and their state
    esaved         \* the data a Visitor holds after Engine::visit wrote to it

binder_vars == <<forward_map, backward_map, enabled, last, saved, orig>>
handle_vars == <<id, type_name, endian, origin, visitor, hlast, kept>>
\* What Engine::visit reads and writes beside the scenes.
persist_vars == <<flushed, upload_sender, resources, esaved>>
engine_vars ==
    <<scenes, scenes2d, window_size, ui_time, panicked, trace, elast,
      drawing_context, persist_vars>>
vars == <<binder_vars, handle_vars, engine_vars>>
\* What the binder's operations leave alone.
others == <<handle_vars, engine_vars>>

\* A record of one call. Arguments a call does not take are NONE / 0.
\* f is the closure given to retain (NoClosure for the other calls).
\* after says what the call directly followed, where a property needs it:
\* for bind(n, _), Some(b) when the call before it was bind(n, b); for a
\* read-mode visit, Some("clear") when the call before it was clear().
\* depth is the number of regions the Visitor is still inside when a visit
\* returns.
NoClosure == [keep |-> {}, edit |-> <<>>]
Call(op, node, body, ret) ==
    [op |-> op, node |-> node, body |-> body, ret |-> ret, f |-> NoClosure,
     after |-> None, depth |-> 0]

\* What has been saved: nothing yet, or the fields of the binder's region.
NoData == [written |-> FALSE, data |-> EmptyMap]
Data(d) == [written |-> TRUE, data |-> d]

\* The binder's fields as one value.
Binder(fm, bm, en) == [forward_map |-> fm, backward_map |-> bm, enabled |-> en]

\* The three wrapper types define_rapier_handle! defines.
HandleTypes == {"RigidBodyHandle", "ColliderHandle", "JointHandle"}

\* The byte orders of the targets the program is built for.
Endians == {"little", "big"}

\* Uuid::nil(), which the derived Default of a wrapper holds: 16 zero bytes.
Nil == <<0, 0, 0, 0, 0, 0, 0, 0, 0, 0, 0, 0, 0, 0, 0, 0>>

\* The k-th random (version 4, variant 1) Uuid the physics code makes.
Uuid(k) == <<0, 0, 0, 0, 0, 0, 64, 0, 128, 0, 0, 0, 0, 0, 0, k>>
Uuids == {Uuid(k) : k \in 1..NumUuids}

\* The u64 values a legacy save holds under "Index" and "Generation".
LegacyValues == {0, 3, 7, 258}

\* The n low bytes of v, lowest first and highest first.
RECURSIVE le_bytes(_, _)
le_bytes(v, n) == IF n = 0 THEN <<>> ELSE <<v % 256>> \o le_bytes(v \div 256, n - 1)
RECURSIVE be_bytes(_, _)
be_bytes(v, n) == IF n = 0 THEN <<>> ELSE be_bytes(v \div 256, n - 1) \o <<v % 256>>

\* The 8 bytes a u64 has in memory.
bytes_of(v) == IF endian = "little" THEN le_bytes(v, 8) ELSE be_bytes(v, 8)

\* The array of index first and generation second, read as 16 bytes.
transmute_generation_first(index, generation) == bytes_of(generation) \o bytes_of(index)

\* Two u64 packed into the bytes of the first alone.
transmute_index_only(index, generation) == bytes_of(index) \o bytes_of(index)

\* std::mem::transmute::<_, [u8; 16]>([index, generation])
transmute(index, generation) == bytes_of(index) \o bytes_of(generation)

\* Option<T> over a set of values.
Opt(S) == {None} \cup {Some(v) : v \in S}

\* A region's field of the given name, if opt holds a value for it.
Field(name, opt) == IF opt = None THEN EmptyMap ELSE name :> opt[1]

\* The fields a stored handle region can hold: the modern "Id", the legacy
\* "Index" and "Generation", each there or not.
Payloads ==
    {Field("Id", a) @@ Field("Index", i) @@ Field("Generation", g) :
        a \in Opt(Uuids \cup {Nil}), i \in Opt(LegacyValues), g \in Opt(LegacyValues)}

\* A Visitor over the handle's data: its mode, whether the region of the
\* handle's name exists, and the fields of that region.
Visitor(reading, present, fields) ==
    [reading |-> reading, present |-> present, fields |-> fields]

\* A record of one call on the handle: depth is the number of regions the
\* Visitor is still inside when the call returns.
HCall(op, ret, depth) == [op |-> op, ret |-> ret, depth |-> depth]

\* TextureKind of a render target, with its size in pixels.
Texture(kind, width, height) == [kind |-> kind, width |-> width, height |-> height]
Textures == {Texture(kind, 4, 2) : kind \in {"Rectangle", "Cube"}}

\* A scene: its enabled flag and its render_target.
Scene(en, rt) == [enabled |-> en, render_target |-> rt]
Scenes == {Scene(en, rt) : en \in BOOLEAN, rt \in Opt(Textures)}

\* Inner sizes of the window, (width, height).
WindowSizes == {<<8, 6>>, <<6, 4>>}

\* Time steps given to Engine::update.
Dts == {1, 2}

\* Durations instant::Instant measures for the interface's update.
Durations == {0, 1}

\* A record of one call on the engine: ret is what it returned, depth the
\* number of regions the Visitor is still inside when a visit returns, and
\* before the scenes of both containers when a visit was called.
ECall(op, dt) == [op |-> op, dt |-> dt, ret |-> None, depth |-> 0, before |-> None]

\* The draw list after the interface it was made from has changed.
Outdated(context) == IF context = "empty" THEN "empty" ELSE "stale"

\* ResourceManager::new, with the renderer's upload_sender, and a renderer
\* and a Visitor not used yet.
NewPersist ==
    /\ flushed = FALSE
    /\ upload_sender = Some("renderer")
    /\ resources = EmptyMap
    /\ esaved = NoData

\* impl Default for PhysicsBinder
DefaultBinder ==
    /\ forward_map = EmptyMap
    /\ backward_map = EmptyMap
    /\ enabled = TRUE
    /\ last = Call("default", NONE, 0, None)
    /\ saved = NoData
    /\ orig = Binder(EmptyMap, EmptyMap, TRUE)

\* #[derive(Default)] of a wrapper, with no Visitor data yet.
DefaultHandle ==
    /\ id = Nil
    /\ origin = "default"
    /\ visitor = Visitor(FALSE, FALSE, EmptyMap)
    /\ hlast = HCall("default", None, 0)
    /\ kept = None

\* Engine::new: no scenes, the window as it was created.
NewEngine ==
    /\ scenes = <<>>
    /\ scenes2d = <<>>
    /\ ui_time = 0
    /\ panicked = FALSE
    /\ trace = <<>>
    /\ elast = ECall("new", 0)
    /\ drawing_context = "empty"
    /\ NewPersist

\* A new binder, beside a default handle and a new engine.
Init ==
    /\ DefaultBinder
    /\ DefaultHandle /\ type_name = "RigidBodyHandle" /\ endian = "little"
    /\ NewEngine /\ window_size = <<8, 6>>

(* ---------------------------- operations ------------------------------- *)

\* PhysicsBinder::body_of
body_of(node) == Get(forward_map, node)

\* PhysicsBinder::node_of
node_of(body) == Get(backward_map, body)

\* What bind(node, _) directly follows.
AfterBind(node) ==
    IF last.op = "bind" /\ last.node = node THEN Some(last.body) ELSE None

\* bind returning the body now linked instead of the old one.
bind_returns_new(node, rigid_body) ==
    /\ forward_map' = Insert(forward_map, node, rigid_body)
    /\ backward_map' = Insert(backward_map, rigid_body, node)
    /\ last' = [Call("bind", node, rigid_body, Some(rigid_body))
                  EXCEPT !.after = AfterBind(node)]
    /\ UNCHANGED <<enabled, saved, orig, others>>

\* bind removing the backward entry of the body it evicts.
bind_evicting(node, rigid_body) ==
    /\ forward_map' = Insert(forward_map, node, rigid_body)
    /\ backward_map' =
         Insert(IF node \in DOMAIN forward_map
                  THEN Remove(backward_map, forward_map[node])
                  ELSE backward_map,
                rigid_body, node)
    /\ last' = [Call("bind", node, rigid_body, Get(forward_map, node))
                  EXCEPT !.after = AfterBind(node)]
    /\ UNCHANGED <<enabled, saved, orig, others>>

\* bind writing the forward map only.
bind_forward_only(node, rigid_body) ==
    /\ forward_map' = Insert(forward_map, node, rigid_body)
    /\ last' = [Call("bind", node, rigid_body, Get(forward_map, node))
                  EXCEPT !.after = AfterBind(node)]
    /\ UNCHANGED <<backward_map, enabled, saved, orig, others>>

\* PhysicsBinder::bind
bind(node, rigid_body) ==
    /\ forward_map' = Insert(forward_map, node, rigid_body)
    /\ backward_map' = Insert(backward_map, rigid_body, node)
    /\ last' = [Call("bind", node, rigid_body, Get(forward_map, node))
                  EXCEPT !.after = AfterBind(node)]
    /\ UNCHANGED <<enabled, saved, orig, others>>

\* unbind forgetting the backward map.
unbind_forward_only(node) ==
    /\ IF node \in DOMAIN forward_map
         THEN /\ forward_map' = Remove(forward_map, node)
              /\ last' = Call("unbind", node, 0, Some(forward_map[node]))
         ELSE /\ UNCHANGED forward_map
              /\ last' = Call("unbind", node, 0, None)
    /\ UNCHANGED <<backward_map, enabled, saved, orig, others>>

\* PhysicsBinder::unbind
unbind(node) ==
    /\ IF node \in DOMAIN forward_map
         THEN /\ forward_map' = Remove(forward_map, node)
              /\ backward_map' = Remove(backward_map, forward_map[node])
              /\ last' = Call("unbind", node, 0, Some(forward_map[node]))
         ELSE /\ UNCHANGED <<forward_map, backward_map>>
              /\ last' = Call("unbind", node, 0, None)
    /\ UNCHANGED <<enabled, saved, orig, others>>

\* unbind_by_body removing the backward entry as well.
unbind_by_body_both(body) ==
    /\ IF body \in DOMAIN backward_map
         THEN /\ forward_map' = Remove(forward_map, backward_map[body])
              /\ backward_map' = Remove(backward_map, body)
              /\ last' = Call("unbind_by_body", NONE, body, Some(backward_map[body]))
         ELSE /\ UNCHANGED <<forward_map, backward_map>>
              /\ last' = Call("unbind_by_body", NONE, body, Some(NONE))
    /\ UNCHANGED <<enabled, saved, orig, others>>

\* PhysicsBinder::unbind_by_body
unbind_by_body(body) ==
    /\ IF body \in DOMAIN backward_map
         THEN /\ forward_map' = Remove(forward_map, backward_map[body])
              /\ last' = Call("unbind_by_body", NONE, body, Some(backward_map[body]))
         ELSE /\ UNCHANGED forward_map
              /\ last' = Call("unbind_by_body", NONE, body, Some(NONE))
    /\ UNCHANGED <<backward_map, enabled, saved, orig, others>>

\* clear forgetting the backward map.
clear_forward_only ==
    /\ forward_map' = EmptyMap
    /\ last' = Call("clear", NONE, 0, None)
    /\ UNCHANGED <<backward_map, enabled, saved, orig, others>>

\* PhysicsBinder::clear
clear ==
    /\ forward_map' = EmptyMap
    /\ backward_map' = EmptyMap
    /\ last' = Call("clear", NONE, 0, None)
    /\ UNCHANGED <<enabled, saved, orig, others>>

\* The closures retain accepts, F: FnMut(&Handle<N>, &mut RigidBodyHandle) -> bool.
\* A closure is given by the pairs it answers true for (keep) and by what it
\* writes through the &mut RigidBodyHandle it receives (edit, body -> body;
\* the identity for a closure that does not write).
KeepAll == Handles \X Bodies
KeepNode(n) == {p \in KeepAll : p[1] = n}
KeepBody(b) == {p \in KeepAll : p[2] = b}
KeepSets ==
    {KeepAll, {}}
      \cup {KeepNode(n) : n \in Handles} \cup {KeepAll \ KeepNode(n) : n \in Handles}
      \cup {KeepBody(b) : b \in Bodies} \cup {KeepAll \ KeepBody(b) : b \in Bodies}
NoEdit == [b \in Bodies |-> b]
BodyEdits == {NoEdit} \cup {[b \in Bodies |-> c] : c \in Bodies}
Closure(keep, edit) == [keep |-> keep, edit |-> edit]
Closures == {Closure(keep, edit) : keep \in KeepSets, edit \in BodyEdits}

\* The backward pass giving f the entry as (key, value), that is (body, node).
retain_backward_swapped(m, f) ==
    [b \in {x \in DOMAIN m : <<x, m[x]>> \in f.keep} |-> m[b]]

\* self.backward_map.retain(|node, handle| { let mut n = *node; f(handle, &mut n) }):
\* the key of a backward entry is the body and its value the node, so f is
\* called with (node, a copy of the body); what f writes goes to the copy.
retain_backward(m, f) ==
    [b \in {x \in DOMAIN m : <<m[x], x>> \in f.keep} |-> m[b]]

\* self.forward_map.retain(f): f is called with (node, &mut body) of each
\* entry; what f writes is stored in the entries that are kept.
retain_forward(m, f) ==
    [n \in {x \in DOMAIN m : <<x, m[x]>> \in f.keep} |-> f.edit[m[n]]]

\* PhysicsBinder::retain
retain(f) ==
    /\ backward_map' = retain_backward(backward_map, f)
    /\ forward_map' = retain_forward(forward_map, f)
    /\ last' = [Call("retain", NONE, 0, None) EXCEPT !.f = f]
    /\ UNCHANGED <<enabled, saved, orig, others>>

\* The caller writes the public field `enabled`.
set_enabled(value) ==
    /\ enabled' = value
    /\ last' = Call("set_enabled", NONE, 0, None)
    /\ UNCHANGED <<forward_map, backward_map, saved, orig, others>>

(* ------------------------------ Visit ---------------------------------- *)

\* Result<(), VisitError>
Ok == Some("Ok")
Err == Some("Err")

\* impl Visit for RigidBodyHandle, write mode: one field "Id" in the region.
WriteId(b) == [Id |-> b]

\* impl Visit for RigidBodyHandle, read mode, for a region holding "Id".
ReadId(region) == region.Id

\* Handle<N>::visit: the node handle under its own field.
WriteNode(n) == [Handle |-> n]
ReadNode(region) == region.Handle

\* HashMap::visit, write mode: one item per entry, each a Key and a Value.
WriteForward(m) == {[Key |-> WriteNode(n), Value |-> WriteId(m[n])] : n \in DOMAIN m}
WriteBackward(m) == {[Key |-> WriteId(b), Value |-> WriteNode(m[b])] : b \in DOMAIN m}

\* HashMap::visit, read mode: every item read is inserted into the map, which
\* is not emptied first.
ReadForward(m, items) ==
    LET keys == {ReadNode(i.Key) : i \in items}
        val(k) == ReadId((CHOOSE i \in items : ReadNode(i.Key) = k).Value)
    IN  [k \in (DOMAIN m) \cup keys |-> IF k \in keys THEN val(k) ELSE m[k]]
ReadBackward(m, items) ==
    LET keys == {ReadId(i.Key) : i \in items}
        val(k) == ReadNode((CHOOSE i \in items : ReadId(i.Key) = k).Value)
    IN  [k \in (DOMAIN m) \cup keys |-> IF k \in keys THEN val(k) ELSE m[k]]

\* for (&n, &b) in self.forward_map.iter() { self.backward_map.insert(b, n); }
\* The maps this loop can leave: HashMap iteration order is unspecified, so a
\* body that several nodes map to ends with any one of them.
Rebuilds(bm, fm) ==
    LET bodies == {fm[n] : n \in DOMAIN fm}
    IN  {m \in [(DOMAIN bm) \cup bodies -> Handles \cup {bm[b] : b \in DOMAIN bm}] :
            \A b \in DOMAIN m :
                IF b \in bodies THEN \E n \in DOMAIN fm : fm[n] = b /\ m[b] = n
                                ELSE m[b] = bm[b]}

\* impl Visit for PhysicsBinder, called on a fresh Visitor in write mode:
\* every region is new, so no step fails and the rebuild loop is not entered.
visit_write ==
    /\ saved' = Data([Map |-> WriteForward(forward_map),
                      RevMap |-> WriteBackward(backward_map),
                      Enabled |-> enabled])
    /\ orig' = Binder(forward_map, backward_map, enabled)
    /\ last' = Call("visit_write", NONE, 0, Ok)
    /\ UNCHANGED <<forward_map, backward_map, enabled, others>>

\* What a read-mode visit directly follows.
AfterClear == IF last.op = "clear" THEN Some("clear") ELSE None

\* The read rebuilding the backward map from the forward map every time,
\* whether or not the save holds the backward map's region.
visit_read_always_rebuild ==
    /\ UNCHANGED <<saved, orig, others>>
    /\ IF ~saved.written \/ "Map" \notin DOMAIN saved.data
         THEN /\ last' = [Call("visit_read", NONE, 0, Err)
                            EXCEPT !.after = AfterClear,
                                   !.depth = IF saved.written THEN 1 ELSE 0]
              /\ UNCHANGED <<forward_map, backward_map, enabled>>
         ELSE LET fm == ReadForward(forward_map, saved.data.Map)
              IN  /\ forward_map' = fm
                  /\ backward_map' \in Rebuilds(backward_map, fm)
                  /\ IF "Enabled" \in DOMAIN saved.data
                       THEN /\ enabled' = saved.data.Enabled
                            /\ last' = [Call("visit_read", NONE, 0, Ok)
                                          EXCEPT !.after = AfterClear]
                       ELSE /\ UNCHANGED enabled
                            /\ last' = [Call("visit_read", NONE, 0, Err)
                                          EXCEPT !.after = AfterClear, !.depth = 1]

\* The read returning right after the rebuild loop, before the flag is visited.
visit_read_rebuild_skips_enabled ==
    /\ UNCHANGED <<saved, orig, others>>
    /\ IF ~saved.written \/ "Map" \notin DOMAIN saved.data
         THEN /\ last' = [Call("visit_read", NONE, 0, Err)
                            EXCEPT !.after = AfterClear,
                                   !.depth = IF saved.written THEN 1 ELSE 0]
              /\ UNCHANGED <<forward_map, backward_map, enabled>>
         ELSE LET fm == ReadForward(forward_map, saved.data.Map)
              IN  /\ forward_map' = fm
                  /\ IF "RevMap" \in DOMAIN saved.data
                       THEN /\ backward_map' = ReadBackward(backward_map, saved.data.RevMap)
                            /\ IF "Enabled" \in DOMAIN saved.data
                                 THEN /\ enabled' = saved.data.Enabled
                                      /\ last' = [Call("visit_read", NONE, 0, Ok)
                                                    EXCEPT !.after = AfterClear]
                                 ELSE /\ UNCHANGED enabled
                                      /\ last' = [Call("visit_read", NONE, 0, Err)
                                                    EXCEPT !.after = AfterClear, !.depth = 1]
                       ELSE /\ backward_map' \in Rebuilds(backward_map, fm)
                            /\ UNCHANGED enabled
                            /\ last' = [Call("visit_read", NONE, 0, Ok)
                                          EXCEPT !.after = AfterClear]

\* impl Visit for PhysicsBinder, called on a Visitor in read mode that was
\* loaded from `saved`.
visit_read ==
    /\ UNCHANGED <<saved, orig, others>>
    /\ IF ~saved.written \/ "Map" \notin DOMAIN saved.data
         THEN \* enter_region(name)? or forward_map.visit("Map")? returns the error
              /\ last' = [Call("visit_read", NONE, 0, Err)
                            EXCEPT !.after = AfterClear,
                                   !.depth = IF saved.written THEN 1 ELSE 0]
              /\ UNCHANGED <<forward_map, backward_map, enabled>>
         ELSE LET fm == ReadForward(forward_map, saved.data.Map)
              IN  /\ forward_map' = fm
                  /\ IF "RevMap" \in DOMAIN saved.data
                       THEN backward_map' = ReadBackward(backward_map, saved.data.RevMap)
                       ELSE backward_map' \in Rebuilds(backward_map, fm)
                  /\ IF "Enabled" \in DOMAIN saved.data
                       THEN /\ enabled' = saved.data.Enabled
                            /\ last' = [Call("visit_read", NONE, 0, Ok)
                                          EXCEPT !.after = AfterClear]
                       ELSE /\ UNCHANGED enabled
                            /\ last' = [Call("visit_read", NONE, 0, Err)
                                          EXCEPT !.after = AfterClear, !.depth = 1]

\* The regions a loaded save can lack.
StrippedRegions == {"RevMap", "Enabled"}

\* A save made by a version that did not write the region `name` yet.
strip_region(name) ==
    /\ saved.written
    /\ name \in DOMAIN saved.data
    /\ saved' = Data(Remove(saved.data, name))
    /\ last' = Call("strip_region", NONE, 0, None)
    /\ UNCHANGED <<forward_map, backward_map, enabled, orig, others>>

(* ---------------------------- specification ---------------------------- *)

Next ==
    \/ \E node \in Handles, rigid_body \in Bodies : bind(node, rigid_body)
    \/ \E node \in Handles : unbind(node)
    \/ \E body \in Bodies : unbind_by_body(body)
    \/ clear
    \/ \E f \in Closures : retain(f)
    \/ \E value \in BOOLEAN : set_enabled(value)

Spec == Init /\ [][Next]_vars

\* Calls of bind, unbind and unbind_by_body only.
NextBasic ==
    \/ \E node \in Handles, rigid_body \in Bodies : bind(node, rigid_body)
    \/ \E node \in Handles : unbind(node)
    \/ \E body \in Bodies : unbind_by_body(body)

SpecBasic == Init /\ [][NextBasic]_vars

\* A binder is built, saved once, and the save is loaded back, any number of
\* times, into the binder as it is then: untouched, cleared, or loaded before.
NextVisit ==
    \/ /\ ~saved.written
       /\ \/ \E node \in Handles, rigid_body \in Bodies : bind(node, rigid_body)
          \/ \E node \in Handles : unbind(node)
          \/ \E body \in Bodies : unbind_by_body(body)
          \/ \E f \in Closures : retain(f)
          \/ visit_write
    \/ clear
    \/ \E value \in BOOLEAN : set_enabled(value)
    \/ \E name \in StrippedRegions : strip_region(name)
    \/ visit_read

SpecVisit == Init /\ [][NextVisit]_vars

\* The handles the callers of the next specification use: one node and one
\* body more than Handles and Bodies.
MoreHandles == 1..(MaxNodes + 1)
MoreBodies == 1..(MaxBodies + 1)

\* The range of a map.
Values(m) == {m[k] : k \in DOMAIN m}

\* Neither the node nor the body is present in either map.
Fresh(node, rigid_body) ==
    /\ node \notin DOMAIN forward_map /\ node \notin Values(backward_map)
    /\ rigid_body \notin DOMAIN backward_map /\ rigid_body \notin Values(forward_map)

\* Callers that bind only nodes and bodies that are in neither map, unbind
\* nodes and clear.
NextFresh ==
    \/ \E node \in MoreHandles, rigid_body \in MoreBodies :
          Fresh(node, rigid_body) /\ bind(node, rigid_body)
    \/ \E node \in MoreHandles : unbind(node)
    \/ clear

SpecFresh == Init /\ [][NextFresh]_vars

(* --------------------------- handle wrappers --------------------------- *)

\* A wrapper of any of the three types, on a target of either byte order.
InitHandle ==
    /\ DefaultBinder
    /\ DefaultHandle /\ type_name \in HandleTypes /\ endian \in Endians
    /\ NewEngine /\ window_size = <<8, 6>>

\* impl From<Uuid> for the wrapper.
from(inner) ==
    /\ id' = inner
    /\ origin' = "from"
    /\ hlast' = HCall("from", None, 0)
    /\ UNCHANGED <<type_name, endian, kept, visitor, binder_vars, engine_vars>>

\* Visitor::read_field: the value stored under name in the handle's region.
read_field(name) == Get(visitor.fields, name)

\* The write also emitting the id as the two legacy fields.
handle_visit_write_legacy_too ==
    /\ visitor' = Visitor(FALSE, TRUE, WriteId(id) @@ [Index |-> 0, Generation |-> 0])
    /\ hlast' = HCall("visit_write", Ok, 0)
    /\ UNCHANGED <<id, origin, type_name, endian, kept, binder_vars, engine_vars>>

\* impl Visit for the wrapper, called on a new Visitor, which is in write
\* mode: the region is entered, the id written under "Id", the region left.
handle_visit_write ==
    /\ visitor' = Visitor(FALSE, TRUE, WriteId(id))
    /\ hlast' = HCall("visit_write", Ok, 0)
    /\ UNCHANGED <<id, origin, type_name, endian, kept, binder_vars, engine_vars>>

\* The written data saved and loaded back: the Visitor is in read mode.
reload ==
    /\ ~visitor.reading /\ visitor.present
    /\ visitor' = [visitor EXCEPT !.reading = TRUE]
    /\ hlast' = HCall("reload", None, 0)
    /\ UNCHANGED <<id, origin, type_name, endian, kept, binder_vars, engine_vars>>

\* Stored data loaded: a read-mode Visitor over it.
load(present, fields) ==
    /\ visitor' = Visitor(TRUE, present, fields)
    /\ hlast' = HCall("load", None, 0)
    /\ UNCHANGED <<id, origin, type_name, endian, kept, binder_vars, engine_vars>>

\* The read giving up when the modern field is not there.
handle_visit_read_no_fallback ==
    /\ visitor.reading
    /\ UNCHANGED <<visitor, type_name, endian, kept, binder_vars, engine_vars>>
    /\ IF ~visitor.present
         THEN /\ hlast' = HCall("visit_read", Err, 0)
              /\ UNCHANGED <<id, origin>>
         ELSE IF read_field("Id") # None
         THEN /\ id' = read_field("Id")[1]
              /\ origin' = "modern"
              /\ hlast' = HCall("visit_read", Ok, 0)
         ELSE /\ hlast' = HCall("visit_read", Err, 1)
              /\ UNCHANGED <<id, origin>>

\* impl Visit for the wrapper, called on a Visitor in read mode.
handle_visit_read ==
    /\ visitor.reading
    /\ UNCHANGED <<visitor, type_name, endian, kept, binder_vars, engine_vars>>
    /\ IF ~visitor.present
         \* enter_region(name)? returns the error
         THEN /\ hlast' = HCall("visit_read", Err, 0)
              /\ UNCHANGED <<id, origin>>
         ELSE IF read_field("Id") # None
         THEN /\ id' = read_field("Id")[1]
              /\ origin' = "modern"
              /\ hlast' = HCall("visit_read", Ok, 0)
         ELSE IF read_field("Index") = None \/ read_field("Generation") = None
         \* index.visit(..)? or generation.visit(..)? returns the error, inside
         \* the region
         THEN /\ hlast' = HCall("visit_read", Err, 1)
              /\ UNCHANGED <<id, origin>>
         ELSE /\ id' = transmute(read_field("Index")[1], read_field("Generation")[1])
              /\ origin' = "legacy"
              /\ hlast' = HCall("visit_read", Ok, 0)

\* A handle is given ids, written, and read from what was written or from
\* stored data of either format.
NextHandle ==
    \/ \E inner \in Uuids : from(inner)
    \/ handle_visit_write
    \/ reload
    \/ \E fields \in Payloads : load(TRUE, fields)
    \/ load(FALSE, EmptyMap)
    \/ handle_visit_read

SpecHandle == InitHandle /\ [][NextHandle]_vars

\* The regions of legacy saves: "Index" and "Generation" and no "Id".
LegacyPayloads ==
    {[Index |-> i, Generation |-> g] : i \in LegacyValues, g \in LegacyValues}

\* The handle, which is Copy, copied after it was read from legacy fields:
\* the copy is kept with the fields it was read from.
keep ==
    /\ hlast.op = "visit_read" /\ origin = "legacy"
    /\ kept' = Some([index |-> visitor.fields.Index,
                     generation |-> visitor.fields.Generation, id |-> id])
    /\ hlast' = HCall("keep", None, 0)
    /\ UNCHANGED <<id, origin, visitor, type_name, endian, binder_vars, engine_vars>>

\* Handles are read from legacy saves, one after the other.
NextMigrate ==
    \/ \E fields \in LegacyPayloads : load(TRUE, fields)
    \/ handle_visit_read
    \/ keep

SpecMigrate == InitHandle /\ [][NextMigrate]_vars

(* ---------------------------- Engine::update --------------------------- *)

\* A new engine in a window of any of the sizes.
InitUpdate ==
    /\ DefaultBinder
    /\ DefaultHandle /\ type_name = "RigidBodyHandle" /\ endian = "little"
    /\ NewEngine /\ window_size \in WindowSizes

\* engine.scenes.add(scene): the scene is put after the scenes there are.
add_scene(scene) ==
    /\ ~panicked
    /\ Len(scenes) + Len(scenes2d) < MaxScenes
    /\ scenes' = Append(scenes, scene)
    /\ trace' = <<>>
    /\ elast' = ECall("add_scene", 0)
    /\ UNCHANGED <<scenes2d, window_size, ui_time, panicked, binder_vars, handle_vars,
                   drawing_context, persist_vars>>

\* engine.scenes2d.add(scene), likewise.
add_scene2d(scene) ==
    /\ ~panicked
    /\ Len(scenes) + Len(scenes2d) < MaxScenes
    /\ scenes2d' = Append(scenes2d, scene)
    /\ trace' = <<>>
    /\ elast' = ECall("add_scene2d", 0)
    /\ UNCHANGED <<scenes, window_size, ui_time, panicked, binder_vars, handle_vars,
                   drawing_context, persist_vars>>

\* engine.scenes[i].enabled = value
set_scene_enabled(i, value) ==
    /\ ~panicked
    /\ i \in DOMAIN scenes
    /\ scenes' = [scenes EXCEPT ![i].enabled = value]
    /\ trace' = <<>>
    /\ elast' = ECall("set_scene_enabled", 0)
    /\ UNCHANGED <<scenes2d, window_size, ui_time, panicked, binder_vars, handle_vars,
                   drawing_context, persist_vars>>

\* engine.scenes2d[i].enabled = value
set_scene2d_enabled(i, value) ==
    /\ ~panicked
    /\ i \in DOMAIN scenes2d
    /\ scenes2d' = [scenes2d EXCEPT ![i].enabled = value]
    /\ trace' = <<>>
    /\ elast' = ECall("set_scene2d_enabled", 0)
    /\ UNCHANGED <<scenes, window_size, ui_time, panicked, binder_vars, handle_vars,
                   drawing_context, persist_vars>>

\* The window resized from outside: get_window().inner_size() changes.
resize(size) ==
    /\ ~panicked
    /\ window_size' = size
    /\ trace' = <<>>
    /\ elast' = ECall("resize", 0)
    /\ UNCHANGED <<scenes, scenes2d, ui_time, panicked, binder_vars, handle_vars,
                   drawing_context, persist_vars>>

\* One call update makes: which step, on which scene of its container (0 for
\* the resource manager and the interface), with which size and time step.
Event(step, scene, size, dt) == [step |-> step, scene |-> scene, size |-> size, dt |-> dt]

\* The filter taking every scene.
is_enabled_always(s) == TRUE

\* The filter of both loops: |s| s.enabled
is_enabled(s) == s.enabled

\* The frame size taken from a render target of any kind.
frame_size_any_kind(render_target, window) ==
    IF render_target = None
      THEN Some(window)
      ELSE Some(<<render_target[1].width, render_target[1].height>>)

\* The frame size being the window's, whatever the render target.
frame_size_window_only(render_target, window) == Some(window)

\* The closure panicking on every render target, a rectangle included.
frame_size_no_target_only(render_target, window) ==
    IF render_target = None THEN Some(window) ELSE None

\* render_target.as_ref().map_or(window_size, ..): the size a scene is
\* updated with, or None where the closure panics.
frame_size(render_target, window) ==
    IF render_target = None
      THEN Some(window)
      ELSE IF render_target[1].kind = "Rectangle"
             THEN Some(<<render_target[1].width, render_target[1].height>>)
             ELSE None

\* One of the two loops of update, from the i-th scene of ss on: the calls
\* it makes and whether it panics.
RECURSIVE update_scenes(_, _, _, _, _)
update_scenes(step, ss, i, window, dt) ==
    IF i > Len(ss)
      THEN [trace |-> <<>>, panicked |-> FALSE]
      ELSE IF ~is_enabled(ss[i])
             THEN update_scenes(step, ss, i + 1, window, dt)
             ELSE LET size == frame_size(ss[i].render_target, window)
                  IN  IF size = None
                        THEN [trace |-> <<>>, panicked |-> TRUE]
                        ELSE LET rest == update_scenes(step, ss, i + 1, window, dt)
                             IN  [trace |-> <<Event(step, i, size[1], dt)>> \o rest.trace,
                                  panicked |-> rest.panicked]

\* The update running the loop of the 2D scenes before that of the 3D scenes.
update_2d_first(dt) ==
    /\ ~panicked
    /\ LET rm == <<Event("resource_manager", 0, <<>>, dt)>>
           s3 == update_scenes("scene", scenes, 1, window_size, dt)
           s2 == update_scenes("scene2d", scenes2d, 1, window_size, dt)
       IN  IF s2.panicked
             THEN /\ trace' = rm \o s2.trace
                  /\ panicked' = TRUE
                  /\ UNCHANGED <<ui_time, drawing_context>>
             ELSE IF s3.panicked
             THEN /\ trace' = rm \o s2.trace \o s3.trace
                  /\ panicked' = TRUE
                  /\ UNCHANGED <<ui_time, drawing_context>>
             ELSE /\ trace' = rm \o s2.trace \o s3.trace
                                 \o <<Event("user_interface", 0, window_size, dt)>>
                  /\ ui_time' \in Durations
                  /\ drawing_context' = Outdated(drawing_context)
                  /\ UNCHANGED panicked
    /\ elast' = ECall("update", dt)
    /\ UNCHANGED <<scenes, scenes2d, window_size, persist_vars, binder_vars, handle_vars>>

\* Engine::update
update(dt) ==
    /\ ~panicked
    /\ LET rm == <<Event("resource_manager", 0, <<>>, dt)>>
           s3 == update_scenes("scene", scenes, 1, window_size, dt)
           s2 == update_scenes("scene2d", scenes2d, 1, window_size, dt)
       IN  IF s3.panicked
             THEN /\ trace' = rm \o s3.trace
                  /\ panicked' = TRUE
                  /\ UNCHANGED <<ui_time, drawing_context>>
             ELSE IF s2.panicked
             THEN /\ trace' = rm \o s3.trace \o s2.trace
                  /\ panicked' = TRUE
                  /\ UNCHANGED <<ui_time, drawing_context>>
             ELSE /\ trace' = rm \o s3.trace \o s2.trace
                                 \o <<Event("user_interface", 0, window_size, dt)>>
                  /\ ui_time' \in Durations
                  /\ drawing_context' = Outdated(drawing_context)
                  /\ UNCHANGED panicked
    /\ elast' = ECall("update", dt)
    /\ UNCHANGED <<scenes, scenes2d, window_size, persist_vars, binder_vars, handle_vars>>

\* Scenes are added and switched on and off, the window is resized, and the
\* engine is updated, until an update panics.
NextUpdate ==
    \/ \E scene \in Scenes : add_scene(scene)
    \/ \E scene \in Scenes : add_scene2d(scene)
    \/ \E i \in 1..MaxScenes, value \in BOOLEAN : set_scene_enabled(i, value)
    \/ \E i \in 1..MaxScenes, value \in BOOLEAN : set_scene2d_enabled(i, value)
    \/ \E size \in WindowSizes : resize(size)
    \/ \E dt \in Dts : update(dt)

SpecUpdate == InitUpdate /\ [][NextUpdate]_vars

(* ---------------------------- Engine::render --------------------------- *)

\* FrameworkError values the renderer returns for a frame it fails.
FrameworkErrors == {"device lost", "swap failure"}

\* Result::Err(e)
Failed(e) == <<"Err", e>>

\* What Renderer::render_and_swap_buffers returns.
RenderResults == {Ok} \cup {Failed(e) : e \in FrameworkErrors}

\* The call of user_interface.draw().
DrawCall == [step |-> "draw"]

\* The call of renderer.render_and_swap_buffers with its arguments, and what
\* it returned.
RenderCall(ss, ui, ss2d, dt, result) ==
    [step |-> "render_and_swap_buffers", scenes |-> ss, ui |-> ui,
     scenes2d |-> ss2d, dt |-> dt, result |-> result]

\* The render calling the renderer before the interface makes its draw list.
render_before_draw(dt) ==
    /\ ~panicked
    /\ drawing_context' = "fresh"
    /\ \E result \in RenderResults :
         /\ trace' = <<RenderCall(scenes, drawing_context, scenes2d, dt, result), DrawCall>>
         /\ elast' = [ECall("render", dt) EXCEPT !.ret = result]
    /\ UNCHANGED <<scenes, scenes2d, window_size, ui_time, panicked, persist_vars,
                   binder_vars, handle_vars>>

\* Engine::render: the interface makes its draw list, then the renderer is
\* given the scenes, the draw list, the 2D scenes and dt, and what it returns
\* is returned.
render(dt) ==
    /\ ~panicked
    /\ drawing_context' = "fresh"
    /\ \E result \in RenderResults :
         /\ trace' = <<DrawCall, RenderCall(scenes, drawing_context', scenes2d, dt, result)>>
         /\ elast' = [ECall("render", dt) EXCEPT !.ret = result]
    /\ UNCHANGED <<scenes, scenes2d, window_size, ui_time, panicked, persist_vars,
                   binder_vars, handle_vars>>

\* The main loop: scenes are added, and the engine is updated and rendered.
NextRender ==
    \/ \E scene \in Scenes : add_scene(scene)
    \/ \E scene \in Scenes : add_scene2d(scene)
    \/ \E dt \in Dts : update(dt)
    \/ \E dt \in Dts : render(dt)

SpecRender == Init /\ [][NextRender]_vars

(* ------------------------- impl Visit for Engine ----------------------- *)

\* The resources the resource manager is asked for.
Resources == 1..NumResources

\* The scenes of an engine that is saved and loaded: enabled or not.
LoadScenes == {Scene(en, None) : en \in BOOLEAN}

\* One call Engine::visit makes: which, and on what.
VEvent(step, arg) == [step |-> step, arg |-> arg]

\* The statements of Engine::visit run in read mode only, before the regions.
Prologue_no_clear == <<"flush", "update">>
Prologue == <<"flush", "update", "clear", "clear2d">>

\* The regions Engine::visit visits, in the order of the calls.
Regions_scenes2d_first == <<"ResourceManager", "SoundEngine", "Scenes2d", "Scenes">>
Regions == <<"ResourceManager", "SoundEngine", "Scenes", "Scenes2d">>

\* The statements of Engine::visit run in read mode only, after the regions.
Epilogue_resolve_first == <<"upload_sender", "resolve", "resolve2d", "reload_resources">>
Epilogue_sender_last == <<"reload_resources", "resolve", "resolve2d", "upload_sender">>
Epilogue == <<"upload_sender", "reload_resources", "resolve", "resolve2d">>

\* The visit running the read-mode statements in both modes.
visit_steps_both_modes(reading) ==
    <<"enter_region">> \o Prologue \o Regions \o Epilogue \o <<"leave_region">>

\* The statements of Engine::visit, in order, for the Visitor's mode.
visit_steps(reading) ==
    <<"enter_region">>
      \o (IF reading THEN Prologue ELSE <<>>)
      \o Regions
      \o (IF reading THEN Epilogue ELSE <<>>)
      \o <<"leave_region">>

\* What a field's visit writes into its region.
region_content(st, region) ==
    CASE region = "ResourceManager" -> DOMAIN st.resources
      [] region = "SoundEngine" -> "SoundEngine"
      [] region = "Scenes" -> st.scenes
      [] region = "Scenes2d" -> st.scenes2d

\* What a field's visit makes of the engine when it reads its region: the
\* resource manager knows its resources again, not loaded and with no
\* upload channel, and a container holds the scenes that were saved.
region_read(st, region, content) ==
    CASE region = "ResourceManager" ->
           [st EXCEPT !.resources = [x \in content |-> "pending"],
                      !.upload_sender = None]
      [] region = "SoundEngine" -> st
      [] region = "Scenes" -> [st EXCEPT !.scenes = content]
      [] region = "Scenes2d" -> [st EXCEPT !.scenes2d = content]

\* field.visit(region, visitor): in read mode an error when the data has no
\* such region.
visit_region(st, reading, region) ==
    LET begun == [st EXCEPT !.trace = Append(@, VEvent("visit", region))]
    IN  IF ~reading
          THEN [begun EXCEPT !.data = region :> region_content(st, region) @@ @,
                             !.trace = Append(@, VEvent("visited", region))]
          ELSE IF region \in DOMAIN st.data
                 THEN [region_read(begun, region, st.data[region])
                         EXCEPT !.trace = Append(@, VEvent("visited", region))]
                 ELSE [begun EXCEPT !.ret = Failed(region)]

\* The engine and the Visitor after one statement of Engine::visit.
statement(st, reading, s) ==
    CASE s = "enter_region" ->
           IF reading /\ ~st.present
             THEN [st EXCEPT !.ret = Failed("Engine")]
             ELSE [st EXCEPT !.depth = @ + 1]
      [] s = "flush" ->
           [st EXCEPT !.flushed = TRUE, !.trace = Append(@, VEvent("flush", 0))]
      [] s = "update" ->
           [st EXCEPT !.trace = Append(@, VEvent("resource_manager.update", 0))]
      [] s = "clear" ->
           [st EXCEPT !.scenes = <<>>, !.trace = Append(@, VEvent("clear", 0))]
      [] s = "clear2d" ->
           [st EXCEPT !.scenes2d = <<>>, !.trace = Append(@, VEvent("clear2d", 0))]
      [] s \in {"ResourceManager", "SoundEngine", "Scenes", "Scenes2d"} ->
           visit_region(st, reading, s)
      [] s = "upload_sender" ->
           [st EXCEPT !.upload_sender = Some("renderer"),
                      !.trace = Append(@, VEvent("upload_sender", 0))]
      [] s = "reload_resources" ->
           [st EXCEPT !.resources = [x \in DOMAIN @ |-> "loaded"],
                      !.trace = Append(@, VEvent("reload_resources", 0))]
      [] s = "resolve" ->
           [st EXCEPT !.trace = @ \o [i \in 1..Len(st.scenes) |-> VEvent("resolve", i)]]
      [] s = "resolve2d" ->
           [st EXCEPT !.trace = @ \o [i \in 1..Len(st.scenes2d) |-> VEvent("resolve2d", i)]]
      [] s = "leave_region" ->
           [st EXCEPT !.depth = @ - 1, !.ret = Ok]

\* A visit that goes on after a field's visit has returned an error.
failed_never(st) == FALSE

\* The ? after a call: the visit returns as soon as a value is an error.
failed(st) == st.ret # None

\* The statements from the i-th on, run until one fails.
RECURSIVE run(_, _, _, _)
run(st, reading, steps, i) ==
    IF i > Len(steps) \/ failed(st)
      THEN st
      ELSE run(statement(st, reading, steps[i]), reading, steps, i + 1)

\* impl Visit for Engine, on a new Visitor (write mode) or on a Visitor
\* loaded from what was saved (read mode).
engine_visit(reading) ==
    /\ ~panicked
    /\ LET st0 == [scenes |-> scenes, scenes2d |-> scenes2d, flushed |-> flushed,
                   upload_sender |-> upload_sender, resources |-> resources,
                   present |-> esaved.written,
                   data |-> IF reading THEN esaved.data ELSE EmptyMap,
                   trace |-> <<>>, ret |-> None, depth |-> 0]
           st == run(st0, reading, visit_steps(reading), 1)
       IN  /\ scenes' = st.scenes
           /\ scenes2d' = st.scenes2d
           /\ flushed' = st.flushed
           /\ upload_sender' = st.upload_sender
           /\ resources' = st.resources
           /\ esaved' = IF reading THEN esaved ELSE Data(st.data)
           /\ trace' = st.trace
           /\ elast' = [ECall(IF reading THEN "visit_read" ELSE "visit_write", 0)
                          EXCEPT !.ret = st.ret, !.depth = st.depth,
                                 !.before = Some(<<scenes, scenes2d>>)]
    /\ UNCHANGED <<window_size, ui_time, panicked, drawing_context,
                   binder_vars, handle_vars>>

\* A scene of the kind that is saved, added to a container.
add_load_scene(scene, is2d) ==
    IF is2d THEN add_scene2d(scene) ELSE add_scene(scene)

\* The resource manager asked for a resource, which it loads.
request(r) ==
    /\ ~panicked
    /\ r \notin DOMAIN resources
    /\ resources' = r :> "loaded" @@ resources
    /\ trace' = <<>>
    /\ elast' = ECall("request", 0)
    /\ UNCHANGED <<scenes, scenes2d, window_size, ui_time, panicked, drawing_context,
                   flushed, upload_sender, esaved, binder_vars, handle_vars>>

\* A save that lacks one of the four regions.
strip_engine_region(region) ==
    /\ esaved.written
    /\ DOMAIN esaved.data = {Regions[i] : i \in DOMAIN Regions}
    /\ esaved' = Data([x \in DOMAIN esaved.data \ {region} |-> esaved.data[x]])
    /\ trace' = <<>>
    /\ elast' = ECall("strip_engine_region", 0)
    /\ UNCHANGED <<scenes, scenes2d, window_size, ui_time, panicked, drawing_context,
                   flushed, upload_sender, resources, binder_vars, handle_vars>>

\* An engine is given scenes and resources and saved once; the save, whole
\* or lacking a region, is loaded back any number of times.
NextPersist ==
    \/ /\ ~esaved.written
       /\ \/ \E scene \in LoadScenes, is2d \in BOOLEAN : add_load_scene(scene, is2d)
          \/ \E r \in Resources : request(r)
          \/ engine_visit(FALSE)
    \/ \E i \in DOMAIN Regions : strip_engine_region(Regions[i])
    \/ engine_visit(TRUE)

SpecPersist == Init /\ [][NextPersist]_vars

(* ------------------------------ properties ----------------------------- *)

\* The entries of a map as (key, value) pairs.
Pairs(m) == {<<k, m[k]>> : k \in DOMAIN m}

\* fm and bm are mutual inverses: (n, b) is in fm exactly when (b, n) is in bm.
MutualInverse(fm, bm) ==
    /\ \A n \in DOMAIN fm : fm[n] \in DOMAIN bm /\ bm[fm[n]] = n
    /\ \A b \in DOMAIN bm : bm[b] \in DOMAIN fm /\ fm[bm[b]] = b

\* The last call was bind(n, b2) on a node bound to another body before it.
Rebound == last.op = "bind" /\ last.ret # None /\ last.ret # Some(last.body)

\* C1: starting from an empty binder, after every call of bind, unbind and
\* unbind_by_body the forward and the backward map are mutual inverses.
C1_MutualInverseAfterEveryCall == MutualInverse(forward_map, backward_map)

\* C2: in every reachable state no two different nodes of the forward map are
\* mapped to the same body; so after bind(n2, b) no other node is bound to b.
C2_BodyBoundToOneNode ==
    \A n1, n2 \in DOMAIN forward_map :
        forward_map[n1] = forward_map[n2] => n1 = n2

\* C3: bind(n, b) directly followed by bind(n, b2), b # b2, returns Some(b)
\* and leaves body_of(n) = Some(b2) and node_of(b2) = Some(n); bind on a node
\* that has no forward entry returns None.
C3_RebindReturnsOldBody ==
    /\ [](last.op = "bind" /\ last.after # None /\ last.after # Some(last.body)
            => /\ last.ret = last.after
               /\ body_of(last.node) = Some(last.body)
               /\ node_of(last.body) = Some(last.node))
    /\ [][last'.op = "bind" /\ last'.node \notin DOMAIN forward_map
            => last'.ret = None]_vars

\* C3 witness: a bind has just rebound the node that the call before it bound
\* to another body.
C3_Witness ==
    /\ last.op = "bind" /\ last.after # None /\ last.after # Some(last.body)
    /\ last.ret = last.after

\* The backward entry under b does not match the forward map: its node is not
\* bound, or is bound to another body.
Stale(b) ==
    /\ b \in DOMAIN backward_map
    /\ \/ backward_map[b] \notin DOMAIN forward_map
       \/ forward_map[backward_map[b]] # b

\* A step of bind(n, b2) that rebinds a node n bound to another body b whose
\* backward entry names n leaves node_of(b) = Some(n) and body_of(n) = Some(b2).
EvictedEntryStillNamesNode ==
    last'.op = "bind" /\ last'.ret # None /\ last'.ret # Some(last'.body)
      /\ Get(backward_map, last'.ret[1]) = Some(last'.node)
      => /\ Get(backward_map', last'.ret[1]) = Some(last'.node)
         /\ Get(forward_map', last'.node) = Some(last'.body)

C5_Unbind ==
    [][last'.op = "unbind" =>
         LET node == last'.node IN
         /\ IF node \in DOMAIN forward_map
              THEN /\ last'.ret = Some(forward_map[node])
                   /\ node \notin DOMAIN forward_map'
                   /\ forward_map[node] \notin DOMAIN backward_map'
                   /\ Pairs(backward_map') =
                        {p \in Pairs(backward_map) : p[1] # forward_map[node]}
              ELSE /\ last'.ret = None
                   /\ backward_map' = backward_map
                   /\ forward_map' = forward_map
         /\ enabled' = enabled
         /\ Pairs(forward_map') = {p \in Pairs(forward_map) : p[1] # node}]_vars

\* C5 witness: unbind has just removed a binding whose body had a backward entry.
C5_Witness ==
    /\ last.op = "unbind" /\ last.ret # None
    /\ last.node \notin DOMAIN forward_map
    /\ last.ret[1] \notin DOMAIN backward_map
    /\ forward_map # EmptyMap

\* C6: unbind_by_body(body) with a backward entry (body -> n) removes n from
\* the forward map, returns n and leaves the backward map as it is; without
\* such an entry it returns NONE and changes neither map.
C6_UnbindByBody ==
    [][last'.op = "unbind_by_body" =>
         LET body == last'.body IN
         /\ backward_map' = backward_map
         /\ IF body \in DOMAIN backward_map
              THEN /\ last'.ret = Some(backward_map[body])
                   /\ backward_map[body] \notin DOMAIN forward_map'
                   /\ Pairs(forward_map') =
                        {p \in Pairs(forward_map) : p[1] # backward_map[body]}
                   /\ Get(backward_map', body) = Some(backward_map[body])
              ELSE /\ last'.ret = Some(NONE)
                   /\ forward_map' = forward_map]_vars

\* C6 witness: unbind_by_body has just removed a node from the forward map,
\* and node_of(body) still answers that node.
C6_Witness ==
    /\ last.op = "unbind_by_body" /\ last.ret # Some(NONE)
    /\ last.ret[1] \notin DOMAIN forward_map
    /\ node_of(last.body) = last.ret

\* C7: retain(f) with an f that does not write the body, on maps that are
\* mutual inverses, leaves in both maps exactly the pairs f answers true for,
\* and the maps are still mutual inverses; f = false empties both.
C7_RetainKeepsExactlyTruePairs ==
    [][last'.op = "retain" /\ last'.f.edit = NoEdit
         /\ MutualInverse(forward_map, backward_map)
         => /\ Pairs(forward_map') = Pairs(forward_map) \cap last'.f.keep
            /\ Pairs(backward_map') =
                 {<<p[2], p[1]>> : p \in Pairs(forward_map) \cap last'.f.keep}
            /\ MutualInverse(forward_map', backward_map')
            /\ last'.f.keep = {} =>
                 forward_map' = EmptyMap /\ backward_map' = EmptyMap]_vars

\* C7 witness: a retain whose closure writes no body and is not constantly
\* true has just returned, leaving a binder that is not empty, holds only
\* pairs the closure answers true for, and whose maps are mutual inverses.
C7_Witness ==
    /\ last.op = "retain" /\ last.f.edit = NoEdit
    /\ forward_map # EmptyMap
    /\ Pairs(forward_map) \subseteq last.f.keep
    /\ last.f.keep # KeepAll
    /\ MutualInverse(forward_map, backward_map)

\* C8: for every closure retain accepts, also one that writes the body it is
\* given, maps that are mutual inverses before the call are so after it.
C8_RetainRestoresInverse ==
    [][last'.op = "retain" /\ MutualInverse(forward_map, backward_map)
         => MutualInverse(forward_map', backward_map')]_vars

\* C9 as stated: after clear() both maps are empty and stay empty (every
\* body_of and node_of answers None) until the next bind; clear leaves the
\* enabled flag alone.
C9_EmptyUntilNextBind ==
    /\ [](last.op = "clear" => forward_map = EmptyMap /\ backward_map = EmptyMap)
    /\ [][forward_map = EmptyMap /\ backward_map = EmptyMap
            /\ (forward_map' # EmptyMap \/ backward_map' # EmptyMap)
            => last'.op = "bind"]_vars
    /\ [][last'.op = "clear" => enabled' = enabled]_vars

\* C9 as amended: after clear() both maps are empty, whatever they held, and
\* stay empty until the next bind or the next read-mode visit; clear leaves
\* the enabled flag alone.
C9_EmptyUntilNextBindOrLoad ==
    /\ [](last.op = "clear" => forward_map = EmptyMap /\ backward_map = EmptyMap)
    /\ [][forward_map = EmptyMap /\ backward_map = EmptyMap
            /\ (forward_map' # EmptyMap \/ backward_map' # EmptyMap)
            => last'.op \in {"bind", "visit_read"}]_vars
    /\ [][last'.op = "clear" => enabled' = enabled]_vars

\* C9 witness: clear has just emptied a binder that is disabled.
C9_Witness ==
    /\ last.op = "clear" /\ ~enabled
    /\ \A n \in Handles : body_of(n) = None
    /\ \A b \in Bodies : node_of(b) = None

\* The save holds every region the binder writes.
Complete == saved.written /\ DOMAIN saved.data = {"Map", "RevMap", "Enabled"}

\* C10: a binder written with visit, cleared, and read back from what was
\* written has the forward and backward maps it had when it was written.
C10_RoundTrip ==
    last.op = "visit_read" /\ last.after = Some("clear") /\ Complete
      => /\ last.ret = Ok
         /\ forward_map = orig.forward_map
         /\ backward_map = orig.backward_map

\* C10 witness: a binder of MaxNodes distinct nodes bound to distinct bodies
\* was saved, cleared and read back.
C10_Witness ==
    /\ last.op = "visit_read" /\ last.after = Some("clear") /\ Complete
    /\ DOMAIN orig.forward_map = Handles
    /\ MutualInverse(orig.forward_map, orig.backward_map)
    /\ forward_map = orig.forward_map

\* The save holds the forward map and the flag but not the backward map.
NoRevMap == saved.written /\ DOMAIN saved.data = {"Map", "Enabled"}

\* C11: an empty binder read from a save that has "Map" but no "RevMap" is
\* read without an error, and its backward map is then the inverse of the
\* forward map it loaded: backward[b] = n for every (n, b) of the forward
\* map, and nothing else.
C11_RebuiltBackwardIsInverse ==
    last.op = "visit_read" /\ last.after = Some("clear") /\ NoRevMap
      => /\ last.ret = Ok
         /\ Pairs(backward_map) = {<<p[2], p[1]>> : p \in Pairs(forward_map)}

\* C12: a new binder is enabled; a binder read from a save that holds the
\* flag has the flag it had when it was written, on the path that reads the
\* backward map and on the path that rebuilds it.
C12_EnabledPersisted ==
    /\ last.op = "default" => enabled
    /\ last.op = "visit_read" /\ (Complete \/ NoRevMap)
         => last.ret = Ok /\ enabled = orig.enabled

\* C12 witness: a binder saved disabled was read back on the rebuild path and
\* is disabled.
C12_Witness ==
    /\ last.op = "visit_read" /\ NoRevMap
    /\ ~orig.enabled /\ ~enabled

\* The handle was last read from a region of exactly these fields.
ReadFrom(names) ==
    /\ hlast.op = "visit_read"
    /\ visitor.present /\ DOMAIN visitor.fields = names

\* C13: a handle wrapper of any of the three types, whatever its id, is
\* written as one field "Id" of its region, with no "Index" and no
\* "Generation"; read from what was written, its id is the id written.
C13_WritesIdOnlyAndReadsItBack ==
    /\ hlast.op = "visit_write"
         => /\ hlast.ret = Ok
            /\ visitor.present /\ DOMAIN visitor.fields = {"Id"}
            /\ visitor.fields.Id = id
    /\ ReadFrom({"Id"}) => hlast.ret = Ok /\ id = visitor.fields.Id

\* C13 witness: a handle holding a random id was read from a region holding
\* only "Id".
C13_Witness == ReadFrom({"Id"}) /\ id \in Uuids /\ origin = "modern"

\* C14: a handle read from a region with no "Id" but with Index = i and
\* Generation = g has the id whose 16 bytes are the 8 bytes of i and then
\* the 8 bytes of g, in the byte order of the target; written after that,
\* it is written as the one field "Id".
C14_LegacyMigration ==
    /\ ReadFrom({"Index", "Generation"})
         => /\ hlast.ret = Ok
            /\ SubSeq(id, 1, 8) = bytes_of(visitor.fields.Index)
            /\ SubSeq(id, 9, 16) = bytes_of(visitor.fields.Generation)
            /\ visitor.fields.Index = 7 /\ visitor.fields.Generation = 3
                 => id = IF endian = "little"
                           THEN <<7, 0, 0, 0, 0, 0, 0, 0, 3, 0, 0, 0, 0, 0, 0, 0>>
                           ELSE <<0, 0, 0, 0, 0, 0, 0, 7, 0, 0, 0, 0, 0, 0, 0, 3>>
    /\ hlast.op = "visit_write" /\ origin = "legacy"
         => DOMAIN visitor.fields = {"Id"} /\ visitor.fields.Id = id

\* C14 witness: the handle migrated from (258, 7) was written.
C14_Witness ==
    /\ hlast.op = "visit_write" /\ origin = "legacy"
    /\ id = transmute(258, 7)

\* C15 as stated: a handle read from a region that has no "Id" field is
\* read without an error.
C15_MissingIdNeverAnError ==
    hlast.op = "visit_read" /\ visitor.present /\ "Id" \notin DOMAIN visitor.fields
      => hlast.ret = Ok

\* C15 as amended: a handle read from a region that has no "Id" field but
\* has the fields "Index" and "Generation" is read without an error, its id
\* made from the two.
C15_MissingIdWithLegacyFieldsNotAnError ==
    ReadFrom({"Index", "Generation"})
      => hlast.ret = Ok /\ origin = "legacy" /\ hlast.depth = 0

\* C15 witness: a handle was read from a region with the two legacy fields
\* only, and holds an id other than the default.
C15_Witness == ReadFrom({"Index", "Generation"}) /\ hlast.ret = Ok /\ id # Nil

\* C16: an id given to a handle for an entity, or made from the legacy
\* index and generation of an entity's handle, is not the id of the Default
\* handle.
C16_DefaultIsNoRealId == origin \in {"from", "legacy"} => id # Nil

\* The events of the last update that advance the i-th scene of a container.
Advances(step, i) == {j \in DOMAIN trace : trace[j].step = step /\ trace[j].scene = i}

\* C17: in one update the resource manager's step is the first step, every
\* step of a 3D scene comes before every step of a 2D scene and after the
\* steps of all enabled 3D scenes no 2D step has come, the interface's step
\* comes after the steps of all scenes, and no scene has two steps.
C17_UpdateOrder ==
    elast.op = "update"
      => /\ trace # <<>> /\ trace[1].step = "resource_manager"
         /\ \A j \in DOMAIN trace :
              /\ trace[j].step = "resource_manager" => j = 1
              /\ trace[j].step = "user_interface" => j = Len(trace)
              /\ trace[j].step = "scene2d"
                   => /\ \A k \in DOMAIN trace : trace[k].step = "scene" => k < j
                      /\ \A i \in DOMAIN scenes :
                           scenes[i].enabled => Advances("scene", i) # {}
              /\ \A k \in DOMAIN trace :
                   j # k => trace[j].step # trace[k].step
                              \/ trace[j].scene # trace[k].scene

\* C17 witness: an update advanced a 3D scene, a 2D scene and the interface.
C17_Witness ==
    /\ elast.op = "update"
    /\ Advances("scene", 1) # {} /\ Advances("scene2d", 1) # {}
    /\ Advances("user_interface", 0) # {}

\* C18: in one update no scene that is disabled is advanced, and when the
\* update does not panic every enabled scene is advanced exactly once.
C18_DisabledSkipped ==
    elast.op = "update"
      => /\ \A i \in DOMAIN scenes :
              /\ ~scenes[i].enabled => Advances("scene", i) = {}
              /\ scenes[i].enabled /\ ~panicked => Cardinality(Advances("scene", i)) = 1
         /\ \A i \in DOMAIN scenes2d :
              /\ ~scenes2d[i].enabled => Advances("scene2d", i) = {}
              /\ scenes2d[i].enabled /\ ~panicked
                   => Cardinality(Advances("scene2d", i)) = 1

\* C18 witness: an update that did not panic, over a disabled 3D scene and
\* an enabled one after it, and a disabled 2D scene.
C18_Witness ==
    /\ elast.op = "update" /\ ~panicked
    /\ Len(scenes) = 2 /\ ~scenes[1].enabled /\ scenes[2].enabled
    /\ Len(scenes2d) = 1 /\ ~scenes2d[1].enabled
    /\ Len(trace) = 3

\* The size the claim gives a scene: its render target's, or the window's.
EffectiveSize(s) ==
    IF s.render_target = None
      THEN window_size
      ELSE <<s.render_target[1].width, s.render_target[1].height>>

\* C19: every scene an update advances is advanced with the width and
\* height of its render target, which is a rectangle, or with the window's
\* size when it has none, and the interface always with the window's size.
C19_FrameSizes ==
    elast.op = "update"
      => \A j \in DOMAIN trace :
           /\ trace[j].step = "scene"
                => /\ trace[j].size = EffectiveSize(scenes[trace[j].scene])
                   /\ frame_size(scenes[trace[j].scene].render_target, window_size) # None
           /\ trace[j].step = "scene2d"
                => /\ trace[j].size = EffectiveSize(scenes2d[trace[j].scene])
                   /\ frame_size(scenes2d[trace[j].scene].render_target, window_size) # None
           /\ trace[j].step = "user_interface" => trace[j].size = window_size

\* C19 witness: an update advanced a scene with a render target and a scene
\* without one, and then the interface.
C19_Witness ==
    /\ elast.op = "update" /\ ~panicked
    /\ \E j \in DOMAIN trace : trace[j].step \in {"scene", "scene2d"}
                                 /\ trace[j].size = window_size
    /\ \E j \in DOMAIN trace : trace[j].step \in {"scene", "scene2d"}
                                 /\ trace[j].size = <<4, 2>>

\* The scene holds a render target that is not a rectangle.
NonRectangle(s) == s.render_target # None /\ s.render_target[1].kind # "Rectangle"

\* The scenes of both containers.
AllScenes == {scenes[i] : i \in DOMAIN scenes} \cup {scenes2d[i] : i \in DOMAIN scenes2d}

\* C20 as stated: the thread panics in update only, not when a scene is
\* added, and an update of an engine holding a scene whose render target is
\* not a rectangle panics.
C20_NonRectanglePanicsInUpdate ==
    /\ panicked => elast.op = "update"
    /\ elast.op = "update" /\ (\E s \in AllScenes : NonRectangle(s)) => panicked

\* C20 as amended: the thread panics in update only, not when a scene is
\* added, and an update of an engine holding an enabled scene whose render
\* target is not a rectangle panics.
C20_EnabledNonRectanglePanicsInUpdate ==
    /\ panicked => elast.op = "update"
    /\ elast.op = "update" /\ (\E s \in AllScenes : s.enabled /\ NonRectangle(s))
         => panicked

\* C20 witness: an update panicked on a 2D scene that had been added, and
\* then enabled, with a render target that is not a rectangle.
C20_Witness ==
    /\ panicked /\ elast.op = "update"
    /\ \E i \in DOMAIN scenes2d : scenes2d[i].enabled /\ NonRectangle(scenes2d[i])
    /\ \A i \in DOMAIN scenes : ~NonRectangle(scenes[i])

\* C26: from an empty binder, with bind called only for a node and a body
\* that are in neither map, and with unbind(n) and clear(), the two maps are
\* mutual inverses after every call, and body_of(n) is Some(b) exactly when
\* node_of(b) is Some(n).
C26_FreshBindsKeepInverse ==
    /\ MutualInverse(forward_map, backward_map)
    /\ \A n \in MoreHandles, b \in MoreBodies :
         body_of(n) = Some(b) <=> node_of(b) = Some(n)

\* C26 witness: unbind took one of three bindings away.
C26_Witness ==
    /\ last.op = "unbind" /\ last.ret # None
    /\ Cardinality(DOMAIN forward_map) = 2 /\ Cardinality(DOMAIN backward_map) = 2

\* C27: after unbind(n) has returned Some(b), in any binder bind, unbind and
\* unbind_by_body lead to, node_of(b) is None and no node of the forward map
\* is mapped to b.
C27_UnboundBodyHasNoNode ==
    last.op = "unbind" /\ last.ret # None
      => /\ node_of(last.ret[1]) = None
         /\ \A n \in DOMAIN forward_map : forward_map[n] # last.ret[1]

\* C21: render makes two calls, first the interface's draw and then the
\* renderer's, which gets the 3D scenes, the draw list that draw made, the 2D
\* scenes and dt; render returns what the renderer returned, a failure
\* included, and after it the engine can be updated and rendered again.
C21_Render ==
    elast.op = "render"
      => /\ Len(trace) = 2
         /\ trace[1] = DrawCall
         /\ trace[2] = RenderCall(scenes, "fresh", scenes2d, elast.dt, elast.ret)
         /\ elast.ret \in RenderResults
         /\ ENABLED (\E dt \in Dts : update(dt))
         /\ ENABLED (\E dt \in Dts : render(dt))

\* C21 witness: a render of an engine with scenes, updated before, returned
\* the renderer's failure.
C21_Witness ==
    /\ elast.op = "render" /\ elast.ret = Failed("device lost")
    /\ scenes # <<>> /\ scenes2d # <<>>

\* The last call on the engine was a visit in read mode.
Read == elast.op = "visit_read"

\* The places in the record of the last call where the call was made.
At(step, arg) == {j \in DOMAIN trace : trace[j] = VEvent(step, arg)}

\* Every call (step, arg) of the record comes before the place j.
Before(step, arg, j) == At(step, arg) # {} /\ \A k \in At(step, arg) : k < j

\* The order of the regions as the claims have it.
ClaimedOrder == <<"ResourceManager", "SoundEngine", "Scenes", "Scenes2d">>

\* The regions of ClaimedOrder the save lacks.
MissingRegions == {ClaimedOrder[k] : k \in 1..4} \ DOMAIN esaved.data

\* C22: in a read of the engine, before the first of the four regions is
\* visited the renderer has been flushed, the resource manager updated with
\* a time step of zero, and both scene containers cleared; a read that
\* fails at the first region leaves the renderer flushed and both
\* containers empty.
C22_ReadPrologue ==
    Read
      => /\ \A j \in DOMAIN trace :
              trace[j].step = "visit"
                => /\ Before("flush", 0, j)
                   /\ Before("resource_manager.update", 0, j)
                   /\ Before("clear", 0, j)
                   /\ Before("clear2d", 0, j)
         /\ esaved.written /\ "ResourceManager" \in MissingRegions
              => flushed /\ scenes = <<>> /\ scenes2d = <<>>

\* C22 witness: an engine with 3D and 2D scenes was read from a save that
\* lacks the first region, and has no scenes.
C22_Witness ==
    /\ Read /\ esaved.written /\ "ResourceManager" \in MissingRegions
    /\ elast.before[1][1] # <<>> /\ elast.before[1][2] # <<>>
    /\ scenes = <<>> /\ scenes2d = <<>>

\* The call is the start of a region's visit.
IsVisit(e) == e.step = "visit"

\* C23: in a write and in a read of the engine the regions are visited in
\* the order "ResourceManager", "SoundEngine", "Scenes", "Scenes2d", all
\* four when the visit succeeds, and a region's visit starts only after the
\* visit of the region before it has returned without an error.
C23_RegionOrder ==
    elast.op \in {"visit_read", "visit_write"}
      => LET visits == SelectSeq(trace, IsVisit)
         IN  /\ Len(visits) <= 4
             /\ \A k \in DOMAIN visits : visits[k].arg = ClaimedOrder[k]
             /\ elast.ret = Ok => Len(visits) = 4
             /\ \A k \in 2..4 : \A j \in At("visit", ClaimedOrder[k]) :
                  \E i \in At("visited", ClaimedOrder[k - 1]) : i < j

\* C23 witness: an engine with scenes of both kinds was written and then
\* read, without an error.
C23_Witness ==
    /\ Read /\ elast.ret = Ok
    /\ trace[1] = VEvent("flush", 0)
    /\ esaved.data.Scenes # <<>> /\ esaved.data.Scenes2d # <<>>

\* C24: after a read of the engine without an error the containers hold
\* the saved scenes, every one of them, enabled or not, has been resolved
\* exactly once, the 3D scenes in their order and before every 2D scene,
\* and every resolve comes after the reload of the resources.
C24_ResolveAfterLoad ==
    Read /\ elast.ret = Ok
      => /\ scenes = esaved.data.Scenes /\ scenes2d = esaved.data.Scenes2d
         /\ \A i \in DOMAIN scenes : Cardinality(At("resolve", i)) = 1
         /\ \A i \in DOMAIN scenes2d : Cardinality(At("resolve2d", i)) = 1
         /\ \A j \in DOMAIN trace :
              /\ trace[j].step = "resolve"
                   => /\ trace[j].arg \in DOMAIN scenes
                      /\ \A k \in At("resolve", trace[j].arg + 1) : j < k
                      /\ \A k \in DOMAIN trace : trace[k].step = "resolve2d" => j < k
              /\ trace[j].step = "resolve2d"
                   => /\ trace[j].arg \in DOMAIN scenes2d
                      /\ \A k \in At("resolve2d", trace[j].arg + 1) : j < k
              /\ trace[j].step \in {"resolve", "resolve2d"}
                   => Before("reload_resources", 0, j)

\* C24 witness: a disabled and an enabled 3D scene and a 2D scene were
\* loaded, with a resource.
C24_Witness ==
    /\ Read /\ elast.ret = Ok
    /\ Len(scenes) = 2 /\ ~scenes[1].enabled /\ scenes[2].enabled
    /\ Len(scenes2d) = 1
    /\ resources # EmptyMap

\* C25: in a read of the engine the resource manager gets the renderer's
\* upload channel after the visits of all four regions have returned and
\* before the reload, and a read that returns without an error has
\* reloaded every resource.
C25_SenderThenReload ==
    Read
      => /\ \A j \in At("upload_sender", 0) :
              /\ \A k \in 1..4 : Before("visited", ClaimedOrder[k], j)
              /\ \A i \in At("reload_resources", 0) : j < i
         /\ elast.ret = Ok
              => /\ At("upload_sender", 0) # {} /\ At("reload_resources", 0) # {}
                 /\ upload_sender = Some("renderer")
                 /\ DOMAIN resources = esaved.data.ResourceManager
                 /\ \A r \in DOMAIN resources : resources[r] = "loaded"

\* C25 witness: an engine with resources was read without an error.
C25_Witness ==
    /\ Read /\ elast.ret = Ok
    /\ Cardinality(DOMAIN resources) = 2
    /\ upload_sender = Some("renderer")

\* C28: a visit of the engine, of the binder or of a handle wrapper returns
\* with the Visitor inside as many regions as when it was called, whether it
\* returns an error or not.
C28_RegionLeftOnEveryPath ==
    /\ elast.op \in {"visit_read", "visit_write"} => elast.depth = 0
    /\ last.op \in {"visit_read", "visit_write"} => last.depth = 0
    /\ hlast.op \in {"visit_read", "visit_write"} => hlast.depth = 0

\* C29: a read of the engine from a save that lacks one of the four
\* regions returns the error of that region's visit, which is the last call
\* it makes: no later region is visited, the upload channel is not set, the
\* resources are not reloaded and no scene is resolved, while the renderer
\* stays flushed and the containers that were not read stay empty.
C29_FailedRegionStopsRead ==
    \A region \in MissingRegions :
      Read /\ esaved.written
        => /\ elast.ret = Failed(region)
           /\ trace[Len(trace)] = VEvent("visit", region)
           /\ \A j \in DOMAIN trace :
                trace[j].step \notin {"upload_sender", "reload_resources",
                                      "resolve", "resolve2d"}
           /\ flushed /\ At("flush", 0) # {}
           /\ At("clear", 0) # {} /\ At("clear2d", 0) # {}
           /\ scenes2d = <<>>
           /\ region # "Scenes2d" => scenes = <<>>

\* C29 witness: an engine with 3D scenes was read from a save that lacks
\* the "SoundEngine" region.
C29_Witness ==
    /\ Read /\ esaved.written /\ MissingRegions = {"SoundEngine"}
    /\ elast.before[1][1] # <<>>
    /\ elast.ret = Failed("SoundEngine")

\* C30: a write of the engine does not flush the renderer, clears no
\* container, does not set the upload channel, reloads no resource and
\* resolves no scene, and leaves the scenes of both containers as they were.
C30_WriteHasNoLoadSteps ==
    elast.op = "visit_write"
      => /\ \A j \in DOMAIN trace : trace[j].step \in {"visit", "visited"}
         /\ ~flushed
         /\ scenes = elast.before[1][1] /\ scenes2d = elast.before[1][2]
         /\ esaved.data.Scenes = scenes /\ esaved.data.Scenes2d = scenes2d
         /\ elast.ret = Ok

\* C30 witness: an engine with scenes of both kinds was written.
C30_Witness ==
    /\ elast.op = "visit_write"
    /\ scenes # <<>> /\ scenes2d # <<>>
    /\ Len(trace) = 8

\* The scene is enabled and its render target is not a rectangle.
Offends(s) == s.enabled /\ NonRectangle(s)

\* The first scene of the container that offends, one past the end if none.
FirstOffender(ss) ==
    IF \E i \in DOMAIN ss : Offends(ss[i])
      THEN CHOOSE i \in DOMAIN ss : Offends(ss[i]) /\ \A k \in 1..(i - 1) : ~Offends(ss[k])
      ELSE Len(ss) + 1

\* C31: an update panics exactly when a container holds an enabled scene
\* whose render target is not a rectangle (a disabled one never makes it
\* panic); when it panics, the resource manager and every enabled scene
\* before the first such scene, all enabled 3D scenes when that scene is a
\* 2D one, have been advanced once, and no other scene and not the interface.
C31_PanicAtFirstOffender ==
    elast.op = "update"
      => /\ panicked <=> \E s \in AllScenes : Offends(s)
         /\ panicked
              => /\ trace[1].step = "resource_manager"
                 /\ Advances("user_interface", 0) = {}
                 /\ \A i \in DOMAIN scenes :
                      Cardinality(Advances("scene", i)) =
                        IF scenes[i].enabled /\ i < FirstOffender(scenes) THEN 1 ELSE 0
                 /\ \A i \in DOMAIN scenes2d :
                      Cardinality(Advances("scene2d", i)) =
                        IF /\ scenes2d[i].enabled
                           /\ FirstOffender(scenes) > Len(scenes)
                           /\ i < FirstOffender(scenes2d)
                          THEN 1 ELSE 0

\* C31 witness: an update went past a disabled 3D scene whose render target
\* is not a rectangle, advanced the enabled 3D scene after it, and panicked
\* at a 2D scene.
C31_Witness ==
    /\ elast.op = "update" /\ panicked
    /\ Len(scenes) = 2 /\ ~scenes[1].enabled /\ NonRectangle(scenes[1])
    /\ Advances("scene", 2) # {}
    /\ Len(scenes2d) = 1 /\ Offends(scenes2d[1])

\* C32: of two handles read from legacy fields, the ids are equal exactly
\* when the two have the same index and the same generation.
C32_MigrationInjective ==
    ReadFrom({"Index", "Generation"}) /\ kept # None
      => (id = kept[1].id
            <=> /\ visitor.fields.Index = kept[1].index
                /\ visitor.fields.Generation = kept[1].generation)

\* C32 witness: two handles were read from the legacy pairs (7, 3) and
\* (3, 7), and their ids differ.
C32_Witness ==
    /\ ReadFrom({"Index", "Generation"}) /\ kept # None
    /\ kept[1].index = 7 /\ kept[1].generation = 3
    /\ visitor.fields.Index = 3 /\ visitor.fields.Generation = 7
    /\ id # kept[1].id

====
